---- MODULE Spec2Model ----
(***************************************************************************)
(* MixedRouteHeuristicGasModelFactory                                      *)
(* (src/routers/alpha-router/gas-models/mixedRoute/                        *)
(*  mixed-route-heuristic-gas-model.ts).                                   *)
(*                                                                         *)
(* buildGasModel resolves the USD reference pool and, unless the quote     *)
(* token is the wrapped native currency, the native/quote reference pool,  *)
(* and returns a closure estimateGasCost.  estimateGas splits the route    *)
(* into sections of V3 pools and V2 pairs and prices them.                 *)
(***************************************************************************)
EXTENDS Integers, Sequences, FiniteSets, TLC

VARIABLES
    pc,                             \* position of buildGasModel / of the call
    chainId,                        \* buildGasModel argument
    token,                          \* buildGasModel argument (quote token)
    gasPriceWei,                    \* buildGasModel argument
    provider,                       \* V3poolProvider: candidate triple -> Pool or NoPool
    queries,                        \* the getPools calls issued so far, in order
    usdPool,                        \* captured by the closure
    nativePool,                     \* captured by the closure (NoPool = null)
    routeWithValidQuote,            \* argument of the last estimateGasCost / estimateGas
    acc,                            \* estimateGas: the sections
    baseGasUse,                     \* estimateGas: gas units
    totalInitializedTicksCrossed,   \* estimateGas
    totalGasCostNativeCurrency,     \* estimateGas
    result                          \* what the last estimateGasCost returned or threw

vars == <<pc, chainId, token, gasPriceWei, provider, queries, usdPool, nativePool,
          routeWithValidQuote, acc, baseGasUse, totalInitializedTicksCrossed,
          totalGasCostNativeCurrency, result>>

buildVars == <<chainId, token, gasPriceWei, provider>>
gasVars == <<routeWithValidQuote, acc, baseGasUse, totalInitializedTicksCrossed,
             totalGasCostNativeCurrency, result>>

(***************************************************************************)
(* Bounds of the model.                                                    *)
(***************************************************************************)
MaxRouteLen == 5
MaxTick == 2
MaxPools == 2
MaxModelPools == 2
MaxCallLen == 2

(***************************************************************************)
(* Tokens.  A Token is identified by its address; Pool sorts its two       *)
(* tokens by address (token0 sorts before token1).                         *)
(***************************************************************************)
Tokens == {"USDC", "WETH", "USDT", "DAI", "OTHER"}

Address(t) ==
    CASE t = "USDC" -> 1
      [] t = "WETH" -> 2
      [] t = "USDT" -> 3
      [] t = "DAI" -> 4
      [] OTHER -> 5

ChainIds == {"CHAIN_A", "CHAIN_B"}

WRAPPED_NATIVE_CURRENCY(chain) == "WETH"

NoTokens == <<"undefined">>

\* usdGasTokensByChain[chainId]: a list of tokens, or undefined (NoTokens).
usdGasTokensByChain(chain) ==
    IF chain = "CHAIN_A" THEN <<"USDC", "USDT">> ELSE NoTokens

(***************************************************************************)
(* Gas cost tables (../v3/gas-costs and ../v2/v2-heuristic-gas-model).     *)
(***************************************************************************)
BASE_SWAP_COST(chain) == IF chain = "CHAIN_A" THEN 100 ELSE 200

COST_PER_HOP(chain) == IF chain = "CHAIN_A" THEN 50 ELSE 60

COST_PER_INIT_TICK(chain) == IF chain = "CHAIN_A" THEN 10 ELSE 15

BASE_SWAP_COST_V2 == 80

COST_PER_EXTRA_HOP_V2 == 20

COST_PER_UNINIT_TICK == 0

(***************************************************************************)
(* Small helpers.                                                          *)
(***************************************************************************)
RECURSIVE SumSeq(_)
SumSeq(s) == IF s = <<>> THEN 0 ELSE Head(s) + SumSeq(Tail(s))

RECURSIVE Flatten(_)
Flatten(ss) == IF ss = <<>> THEN <<>> ELSE Head(ss) \o Flatten(Tail(ss))

(***************************************************************************)
(* estimateGas (lines 206-280).                                            *)
(* A pool of a route is a V3 Pool or a V2 Pair; id tells the pools of one  *)
(* route apart.                                                            *)
(***************************************************************************)
Undefined == [kind |-> "undefined", id |-> 0]

\* route.pools[j], j counted from 0 as in the source
PoolAt(pools, j) == IF j >= 0 /\ j < Len(pools) THEN pools[j + 1] ELSE Undefined

InstanceOfPool(p) == p.kind = "Pool"

InstanceOfPair(p) == p.kind = "Pair"

\* Math.max(1, _.sum(initializedTicksCrossedList))
TotalInitializedTicksCrossed(list) ==
    IF SumSeq(list) > 1 THEN SumSeq(list) ELSE 1

\* the inner while of the V3 branch (lines 227-234)
RECURSIVE SeekV3(_, _, _)
RECURSIVE SeekV3IncFirst(_, _, _)
SeekV3One(pools, j, section) ==
    [section |-> Append(section, PoolAt(pools, j)), j |-> j + 1]

SeekV3IncFirst(pools, j, section) ==
    IF InstanceOfPool(PoolAt(pools, j))
    THEN IF j + 1 = Len(pools)
         THEN [section |-> Append(section, PoolAt(pools, j + 1)), j |-> j + 1]
         ELSE SeekV3IncFirst(pools, j + 1, Append(section, PoolAt(pools, j + 1)))
    ELSE [section |-> section, j |-> j]

SeekV3(pools, j, section) ==
    IF InstanceOfPool(PoolAt(pools, j))
    THEN IF j + 1 = Len(pools)
         THEN [section |-> Append(section, PoolAt(pools, j)), j |-> j + 1]
         ELSE SeekV3(pools, j + 1, Append(section, PoolAt(pools, j)))
    ELSE [section |-> section, j |-> j]

\* the inner while of the V2 branch (lines 240-247)
RECURSIVE SeekV2(_, _, _)
SeekV2(pools, j, section) ==
    IF InstanceOfPair(PoolAt(pools, j))
    THEN IF j + 1 = Len(pools)
         THEN [section |-> Append(section, PoolAt(pools, j)), j |-> j + 1]
         ELSE SeekV2(pools, j + 1, Append(section, PoolAt(pools, j)))
    ELSE [section |-> section, j |-> j]

\* what a complete V3 section adds to baseGasUse (lines 237-238)
V3SectionGas(chain, section) ==
    BASE_SWAP_COST(chain) + COST_PER_HOP(chain) * Len(section)

\* what a complete V2 section adds to baseGasUse (lines 250-254)
V2SectionGasPerHop(section) ==
    BASE_SWAP_COST_V2 + COST_PER_EXTRA_HOP_V2 * Len(section)

V2SectionGasNegated(section) ==
    BASE_SWAP_COST_V2 + COST_PER_EXTRA_HOP_V2 * (1 - Len(section))

V2SectionGas(section) ==
    BASE_SWAP_COST_V2 + COST_PER_EXTRA_HOP_V2 * (Len(section) - 1)

\* the outer while (lines 221-256): returns acc and baseGasUse
RECURSIVE SegmentLoop(_, _, _, _, _)
SegmentLoop(pools, j, sections, gas, chain) ==
    IF j < Len(pools)
    THEN IF InstanceOfPool(PoolAt(pools, j))
         THEN LET r == SeekV3(pools, j, <<>>)
              IN SegmentLoop(pools, r.j, Append(sections, r.section),
                             gas + V3SectionGas(chain, r.section), chain)
         ELSE LET r == SeekV2(pools, j, <<>>)
              IN SegmentLoop(pools, r.j, Append(sections, r.section),
                             gas + V2SectionGas(r.section), chain)
    ELSE [acc |-> sections, baseGasUse |-> gas]

\* CurrencyAmount: an exact fraction numerator/denominator of a currency
FromRawAmount(currency, raw) ==
    [currency |-> currency, numerator |-> raw, denominator |-> 1]

NoAmount == [currency |-> "none", numerator |-> 0, denominator |-> 1]

EstimateGas(rwvq, gasPrice, chain) ==
    LET ticksCrossed ==
            TotalInitializedTicksCrossed(rwvq.initializedTicksCrossedList)
        seg == SegmentLoop(rwvq.route.pools, 0, <<>>, 0, chain)
        tickGasUse == COST_PER_INIT_TICK(chain) * ticksCrossed
        uninitializedTickGasUse == COST_PER_UNINIT_TICK * 0
        gasUse == seg.baseGasUse + tickGasUse + uninitializedTickGasUse
        baseGasCostWei == gasPrice * gasUse
    IN [acc |-> seg.acc,
        totalGasCostNativeCurrency |->
            FromRawAmount(WRAPPED_NATIVE_CURRENCY(chain), baseGasCostWei),
        totalInitializedTicksCrossed |-> ticksCrossed,
        baseGasUse |-> gasUse]


(***************************************************************************)
(* Pools of the pool provider, prices and the conversion Price.quote.      *)
(* A Pool holds its two tokens sorted by address, its fee tier, its        *)
(* liquidity and its mid price: token0Price = price[1] / price[2] in       *)
(* token1 per token0, token1Price its inverse.                             *)
(***************************************************************************)
NoPool == [token0 |-> "none", token1 |-> "none", fee |-> "none",
           liquidity |-> 0, price |-> <<0, 1>>]

Token0Price(pool) ==
    [baseCurrency |-> pool.token0, quoteCurrency |-> pool.token1,
     numerator |-> pool.price[1], denominator |-> pool.price[2]]

Token1Price(pool) ==
    [baseCurrency |-> pool.token1, quoteCurrency |-> pool.token0,
     numerator |-> pool.price[2], denominator |-> pool.price[1]]

\* Price.quote(currencyAmount): throws unless the amount is in the base currency
Quote(price, amount) ==
    [throws |-> amount.currency # price.baseCurrency,
     amount |-> [currency |-> price.quoteCurrency,
                 numerator |-> amount.numerator * price.numerator,
                 denominator |-> amount.denominator * price.denominator]]

(***************************************************************************)
(* _.maxBy(pools, (pool) => pool.liquidity), lines 313 and 382.            *)
(* Pool.liquidity is a JSBI, an object.  lodash's maxBy keeps the first    *)
(* element and replaces it when `current > computed` (baseGt); on two      *)
(* objects JavaScript's > compares their primitive values, which for a     *)
(* JSBI is the decimal string of toString(), and two strings are compared  *)
(* character by character.                                                 *)
(***************************************************************************)
RECURSIVE JSBIToString(_)
JSBIToString(n) == IF n < 10 THEN <<n>> ELSE Append(JSBIToString(n \div 10), n % 10)

RECURSIVE StringGt(_, _)
StringGt(a, b) ==
    IF a = <<>> THEN FALSE
    ELSE IF b = <<>> THEN TRUE
    ELSE IF Head(a) # Head(b) THEN Head(a) > Head(b)
    ELSE StringGt(Tail(a), Tail(b))

BaseGt(value, other) == StringGt(JSBIToString(value), JSBIToString(other))

RECURSIVE BaseExtremum(_, _, _)
BaseExtremum(pools, index, computed) ==
    IF index > Len(pools) THEN computed
    ELSE BaseExtremum(pools, index + 1,
                      IF BaseGt(pools[index].liquidity, computed.liquidity)
                      THEN pools[index]
                      ELSE computed)

MaxBy(pools) == BaseExtremum(pools, 2, pools[1])

Compact(pools) == SelectSeq(pools, LAMBDA p : p # NoPool)

(***************************************************************************)
(* getHighestLiquidityNativePool (lines 282-316).                          *)
(***************************************************************************)
NativeFeeAmounts == <<"HIGH", "MEDIUM", "LOW">>

\* the candidates handed to getPools (lines 289-293)
NativePoolsQuery(chain, tok) ==
    [i \in 1..Len(NativeFeeAmounts) |->
        <<WRAPPED_NATIVE_CURRENCY(chain), tok, NativeFeeAmounts[i]>>]

\* poolAccessor.getPool(tokenA, tokenB, feeAmount)
GetPool(poolAccessor, tokenA, tokenB, feeAmount) ==
    poolAccessor[<<tokenA, tokenB, feeAmount>>]

\* after the await (lines 297-315): the pool, or null
GetHighestLiquidityNativePool(chain, tok, poolAccessor) ==
    LET pools == Compact([i \in 1..Len(NativeFeeAmounts) |->
                     GetPool(poolAccessor, WRAPPED_NATIVE_CURRENCY(chain), tok,
                             NativeFeeAmounts[i])])
    IN IF Len(pools) = 0 THEN NoPool ELSE MaxBy(pools)

(***************************************************************************)
(* getHighestLiquidityUSDPool (lines 318-385).                             *)
(***************************************************************************)
USDFeeAmounts == <<"HIGH", "MEDIUM", "LOW", "LOWEST">>

\* the candidates handed to getPools (lines 331-343): fee tier by fee tier,
\* within a tier the USD tokens in order
USDPoolsQuery(chain) ==
    Flatten([f \in 1..Len(USDFeeAmounts) |->
        [u \in 1..Len(usdGasTokensByChain(chain)) |->
            <<WRAPPED_NATIVE_CURRENCY(chain), usdGasTokensByChain(chain)[u],
              USDFeeAmounts[f]>>]])

\* after the await (lines 347-384): the pool, or the Error thrown
GetHighestLiquidityUSDPoolNull(chain, poolAccessor) ==
    LET pools == Compact(Flatten([f \in 1..Len(USDFeeAmounts) |->
                     Compact([u \in 1..Len(usdGasTokensByChain(chain)) |->
                         GetPool(poolAccessor, WRAPPED_NATIVE_CURRENCY(chain),
                                 usdGasTokensByChain(chain)[u], USDFeeAmounts[f])])]))
    IN IF Len(pools) = 0
       THEN [throws |-> FALSE, pool |-> NoPool]
       ELSE [throws |-> FALSE, pool |-> MaxBy(pools)]

GetHighestLiquidityUSDPool(chain, poolAccessor) ==
    LET pools == Compact(Flatten([f \in 1..Len(USDFeeAmounts) |->
                     Compact([u \in 1..Len(usdGasTokensByChain(chain)) |->
                         GetPool(poolAccessor, WRAPPED_NATIVE_CURRENCY(chain),
                                 usdGasTokensByChain(chain)[u], USDFeeAmounts[f])])]))
    IN IF Len(pools) = 0
       THEN [throws |-> TRUE, pool |-> NoPool]
       ELSE [throws |-> FALSE, pool |-> MaxBy(pools)]

(***************************************************************************)
(* The closures returned by buildGasModel.                                 *)
(***************************************************************************)
Thrown == [status |-> "throw", gasEstimate |-> 0,
           gasCostInToken |-> NoAmount, gasCostInUSD |-> NoAmount]

NoResult == [status |-> "none", gasEstimate |-> 0,
             gasCostInToken |-> NoAmount, gasCostInUSD |-> NoAmount]

\* the price of the pool with the native currency as base, as the source
\* picks it (lines 85-89, 144-149, 170-175)
NativeTokenPrice(pool, chain) ==
    IF pool.token0 = WRAPPED_NATIVE_CURRENCY(chain)
    THEN Token0Price(pool)
    ELSE Token1Price(pool)

\* lines 115-118
UsdToken(pool, chain) ==
    IF pool.token0 = WRAPPED_NATIVE_CURRENCY(chain) THEN pool.token1 ELSE pool.token0

\* estimateGasCost when the quote token is the native currency (lines 72-100)
EstimateGasCostNativeConverted(rwvq, gasPrice, chain, usdP) ==
    LET g == EstimateGas(rwvq, gasPrice, chain)
        q == Quote(NativeTokenPrice(usdP, chain), g.totalGasCostNativeCurrency)
    IN IF q.throws THEN Thrown
       ELSE [status |-> "ok", gasEstimate |-> g.baseGasUse,
             gasCostInToken |-> q.amount,
             gasCostInUSD |-> q.amount]

EstimateGasCostNative(rwvq, gasPrice, chain, usdP) ==
    LET g == EstimateGas(rwvq, gasPrice, chain)
        q == Quote(NativeTokenPrice(usdP, chain), g.totalGasCostNativeCurrency)
    IN IF q.throws THEN Thrown
       ELSE [status |-> "ok", gasEstimate |-> g.baseGasUse,
             gasCostInToken |-> g.totalGasCostNativeCurrency,
             gasCostInUSD |-> q.amount]

\* estimateGasCost when the quote token is another token (lines 120-199)
EstimateGasCostQuoteNoNullCheck(rwvq, gasPrice, chain, tok, usdP, nativeP) ==
    LET g == EstimateGas(rwvq, gasPrice, chain)
        inQuote == Quote(NativeTokenPrice(nativeP, chain), g.totalGasCostNativeCurrency)
        inUSD == Quote(NativeTokenPrice(usdP, chain), g.totalGasCostNativeCurrency)
    IN IF inQuote.throws \/ inUSD.throws THEN Thrown
       ELSE [status |-> "ok", gasEstimate |-> g.baseGasUse,
             gasCostInToken |-> inQuote.amount,
             gasCostInUSD |-> inUSD.amount]

EstimateGasCostQuoteSwallow(rwvq, gasPrice, chain, tok, usdP, nativeP) ==
    LET g == EstimateGas(rwvq, gasPrice, chain)
        inQuote == Quote(NativeTokenPrice(nativeP, chain), g.totalGasCostNativeCurrency)
        inUSD == Quote(NativeTokenPrice(usdP, chain), g.totalGasCostNativeCurrency)
    IN IF nativeP = NoPool \/ inQuote.throws \/ inUSD.throws
       THEN [status |-> "ok", gasEstimate |-> g.baseGasUse,
             gasCostInToken |-> FromRawAmount(tok, 0),
             gasCostInUSD |-> FromRawAmount(UsdToken(usdP, chain), 0)]
       ELSE [status |-> "ok", gasEstimate |-> g.baseGasUse,
             gasCostInToken |-> inQuote.amount,
             gasCostInUSD |-> inUSD.amount]

EstimateGasCostQuote(rwvq, gasPrice, chain, tok, usdP, nativeP) ==
    LET g == EstimateGas(rwvq, gasPrice, chain)
        inQuote == Quote(NativeTokenPrice(nativeP, chain), g.totalGasCostNativeCurrency)
        inUSD == Quote(NativeTokenPrice(usdP, chain), g.totalGasCostNativeCurrency)
    IN IF nativeP = NoPool
       THEN [status |-> "ok", gasEstimate |-> g.baseGasUse,
             gasCostInToken |-> FromRawAmount(tok, 0),
             gasCostInUSD |-> FromRawAmount(UsdToken(usdP, chain), 0)]
       ELSE IF inQuote.throws THEN Thrown
       ELSE IF inUSD.throws THEN Thrown
       ELSE [status |-> "ok", gasEstimate |-> g.baseGasUse,
             gasCostInToken |-> inQuote.amount,
             gasCostInUSD |-> inUSD.amount]

(***************************************************************************)
(* The pool provider's content and the arguments of the calls.             *)
(***************************************************************************)
SeqToSet(s) == {s[i] : i \in 1..Len(s)}

QuoteTokens == {"WETH", "DAI", "USDC"}

GasPrices == {3}

Liquidities == {5, 9, 10}

\* every triple buildGasModel(chain, tok) can ask the provider for
Candidates(chain, tok) ==
    (IF usdGasTokensByChain(chain) = NoTokens THEN {}
     ELSE SeqToSet(USDPoolsQuery(chain)))
    \cup
    (IF tok = WRAPPED_NATIVE_CURRENCY(chain) THEN {}
     ELSE SeqToSet(NativePoolsQuery(chain, tok)))

\* new Pool(tokenA, tokenB, fee, ...): the tokens sorted by address.  A
\* provider that answers a triple with the pool of another pair (filed =
\* FALSE) gives a pool without the native currency.
MkPool(triple, opt) ==
    LET a == IF opt.filed THEN triple[1] ELSE "OTHER"
        b == triple[2]
    IN [token0 |-> IF Address(a) < Address(b) THEN a ELSE b,
        token1 |-> IF Address(a) < Address(b) THEN b ELSE a,
        fee |-> triple[3],
        liquidity |-> opt.liquidity,
        price |-> opt.price]

Providers(chain, tok, maxPools, opts) ==
    UNION {{[t \in Candidates(chain, tok) |->
                IF t \in S THEN MkPool(t, g[t]) ELSE NoPool] : g \in [S -> opts]} :
           S \in {T \in SUBSET Candidates(chain, tok) : Cardinality(T) <= maxPools}}

\* pools as the pool provider of the repository builds them
LocatorPools == [liquidity : Liquidities, price : {<<3, 2>>}, filed : {TRUE}]

\* pools of any implementation of IV3PoolProvider
ModelPools == [liquidity : {7}, price : {<<3, 2>>}, filed : BOOLEAN]

RoutePools(n) ==
    {[i \in 1..n |-> [kind |-> k[i], id |-> i]] : k \in [1..n -> {"Pool", "Pair"}]}

\* one entry per pool, a V2 pair crossing no tick; or no entry at all
TicksLists(pools, maxTick) ==
    {t \in [1..Len(pools) -> 0..maxTick] :
        \A i \in 1..Len(pools) : InstanceOfPair(pools[i]) => t[i] = 0}
    \cup {<<>>}

RouteInputs(maxLen, maxTick) ==
    UNION {UNION {{[route |-> [pools |-> p], initializedTicksCrossedList |-> t] :
                      t \in TicksLists(p, maxTick)} : p \in RoutePools(n)} :
           n \in 0..maxLen}

NoRoute == [route |-> [pools |-> <<>>], initializedTicksCrossedList |-> <<>>]

(***************************************************************************)
(* buildGasModel (lines 54-204) and the calls of the model it returns.     *)
(***************************************************************************)
InitCommon ==
    /\ queries = <<>>
    /\ usdPool = NoPool
    /\ nativePool = NoPool
    /\ acc = <<>>
    /\ baseGasUse = 0
    /\ totalInitializedTicksCrossed = 0
    /\ totalGasCostNativeCurrency = NoAmount
    /\ result = NoResult

\* a caller about to build a gas model, over any pool provider
Init ==
    /\ pc = "start"
    /\ chainId \in ChainIds
    /\ token \in QuoteTokens
    /\ gasPriceWei \in GasPrices
    /\ provider \in Providers(chainId, token, MaxModelPools, ModelPools)
    /\ routeWithValidQuote = NoRoute
    /\ InitCommon

\* buildGasModel up to its first await: getHighestLiquidityUSDPool throws
\* (lines 325-329) or hands the USD candidates to getPools (line 345)
BuildGasModel ==
    /\ pc = "start"
    /\ IF usdGasTokensByChain(chainId) = NoTokens
       THEN /\ pc' = "failed"
            /\ queries' = queries
       ELSE /\ pc' = "awaitUSD"
            /\ queries' = Append(queries,
                   [lookup |-> "usd", pools |-> USDPoolsQuery(chainId)])
    /\ UNCHANGED <<buildVars, usdPool, nativePool, gasVars>>

\* the USD pools arrive (lines 347-384 and 62-113): the build fails, returns
\* the model of the native quote token, or asks for the native/quote pools
USDPoolsArriveAlwaysNative ==
    /\ pc = "awaitUSD"
    /\ LET r == GetHighestLiquidityUSDPool(chainId, provider)
       IN IF r.throws
          THEN /\ pc' = "failed"
               /\ UNCHANGED <<usdPool, queries>>
          ELSE /\ usdPool' = r.pool
               /\ pc' = IF token = WRAPPED_NATIVE_CURRENCY(chainId)
                        THEN "built" ELSE "awaitNative"
               /\ queries' = Append(queries,
                      [lookup |-> "native",
                       pools |-> NativePoolsQuery(chainId, token)])
    /\ UNCHANGED <<buildVars, nativePool, gasVars>>

USDPoolsArrive ==
    /\ pc = "awaitUSD"
    /\ LET r == GetHighestLiquidityUSDPool(chainId, provider)
       IN IF r.throws
          THEN /\ pc' = "failed"
               /\ UNCHANGED <<usdPool, queries>>
          ELSE /\ usdPool' = r.pool
               /\ IF token = WRAPPED_NATIVE_CURRENCY(chainId)
                  THEN /\ pc' = "built"
                       /\ queries' = queries
                  ELSE /\ pc' = "awaitNative"
                       /\ queries' = Append(queries,
                              [lookup |-> "native",
                               pools |-> NativePoolsQuery(chainId, token)])
    /\ UNCHANGED <<buildVars, nativePool, gasVars>>

\* the native/quote pools arrive (lines 297-315 and 115-203)
NativePoolsArrive ==
    /\ pc = "awaitNative"
    /\ nativePool' = GetHighestLiquidityNativePool(chainId, token, provider)
    /\ pc' = "built"
    /\ UNCHANGED <<buildVars, queries, usdPool, gasVars>>

\* one call of the model's estimateGasCost
EstimateGasCost ==
    /\ pc = "built"
    /\ \E rwvq \in RouteInputs(MaxCallLen, 0) :
        LET g == EstimateGas(rwvq, gasPriceWei, chainId)
        IN /\ routeWithValidQuote' = rwvq
           /\ acc' = g.acc
           /\ baseGasUse' = g.baseGasUse
           /\ totalInitializedTicksCrossed' = g.totalInitializedTicksCrossed
           /\ totalGasCostNativeCurrency' = g.totalGasCostNativeCurrency
           /\ result' = IF token = WRAPPED_NATIVE_CURRENCY(chainId)
                        THEN EstimateGasCostNative(rwvq, gasPriceWei, chainId, usdPool)
                        ELSE EstimateGasCostQuote(rwvq, gasPriceWei, chainId, token,
                                                  usdPool, nativePool)
    /\ UNCHANGED <<pc, buildVars, queries, usdPool, nativePool>>

Next == BuildGasModel \/ USDPoolsArrive \/ NativePoolsArrive \/ EstimateGasCost

Spec == Init /\ [][Next]_vars

(***************************************************************************)
(* The two reference-pool lookups over the pools the repository's provider *)
(* builds, with liquidities of one and of two digits.                      *)
(***************************************************************************)
InitLocator ==
    /\ pc = "start"
    /\ chainId \in ChainIds
    /\ token \in QuoteTokens
    /\ gasPriceWei \in GasPrices
    /\ provider \in Providers(chainId, token, MaxPools, LocatorPools)
    /\ routeWithValidQuote = NoRoute
    /\ InitCommon

NextLocator == BuildGasModel \/ USDPoolsArrive \/ NativePoolsArrive

SpecLocator == InitLocator /\ [][NextLocator]_vars

(***************************************************************************)
(* estimateGas on its own, over every route and ticks-crossed list.        *)
(***************************************************************************)
InitGas ==
    /\ pc = "estimateGas"
    /\ chainId \in ChainIds
    /\ token = "WETH"
    /\ gasPriceWei \in {0, 3}
    /\ provider = <<>>
    /\ routeWithValidQuote \in RouteInputs(MaxRouteLen, MaxTick)
    /\ InitCommon

EstimateGasCall ==
    /\ pc = "estimateGas"
    /\ LET g == EstimateGas(routeWithValidQuote, gasPriceWei, chainId)
       IN /\ acc' = g.acc
          /\ baseGasUse' = g.baseGasUse
          /\ totalInitializedTicksCrossed' = g.totalInitializedTicksCrossed
          /\ totalGasCostNativeCurrency' = g.totalGasCostNativeCurrency
    /\ pc' = "returned"
    /\ UNCHANGED <<buildVars, queries, usdPool, nativePool, routeWithValidQuote, result>>

NextGas == EstimateGasCall

SpecGas == InitGas /\ [][NextGas]_vars

(***************************************************************************)
(* Properties.                                                             *)
(***************************************************************************)
Pools == routeWithValidQuote.route.pools

TicksList == routeWithValidQuote.initializedTicksCrossedList

Native == WRAPPED_NATIVE_CURRENCY(chainId)

\* C1: for a non-empty route of V3 pools and V2 pairs, the sections that
\* estimateGas built, concatenated in the order they were produced, are the
\* route's pools: none skipped, reordered or duplicated.
C1_SectionsRoundTrip ==
    (pc = "returned" /\ Len(Pools) >= 1) => Flatten(acc) = Pools

C1_Witness ==
    /\ pc = "returned"
    /\ Len(acc) >= 3
    /\ \E i \in 1..Len(acc) : Len(acc[i]) >= 2
    /\ Flatten(acc) = Pools

\* C2: every section that estimateGas built is non-empty and of one family,
\* and two adjacent sections are of different families.
C2_SectionsMaximal ==
    pc = "returned" =>
        /\ \A s \in 1..Len(acc) :
            /\ Len(acc[s]) >= 1
            /\ \A i \in 1..Len(acc[s]) : acc[s][i].kind = acc[s][1].kind
            /\ acc[s][1].kind \in {"Pool", "Pair"}
        /\ \A s \in 1..(Len(acc) - 1) : acc[s][1].kind # acc[s + 1][1].kind

C2_Witness ==
    /\ pc = "returned"
    /\ Len(acc) = 2
    /\ Len(acc[1]) >= 2
    /\ Len(acc[2]) >= 2

\* the maximal same-family runs of the route, read off the route itself:
\* a run starts at i when i is the first pool or follows a pool of the
\* other family, and it ends before the next start
C3_IsRunStart(i) == i = 1 \/ Pools[i - 1].kind # Pools[i].kind

C3_RunLength(i) ==
    LET later == {k \in (i + 1)..Len(Pools) : C3_IsRunStart(k)}
        end == IF later = {} THEN Len(Pools) + 1
               ELSE CHOOSE k \in later : \A m \in later : k <= m
    IN end - i

C3_RunCost(i) ==
    IF Pools[i].kind = "Pool"
    THEN BASE_SWAP_COST(chainId) + COST_PER_HOP(chainId) * C3_RunLength(i)
    ELSE BASE_SWAP_COST_V2 + COST_PER_EXTRA_HOP_V2 * (C3_RunLength(i) - 1)

C3_Ticks == IF SumSeq(TicksList) >= 1 THEN SumSeq(TicksList) ELSE 1

C3_Scenario ==
    /\ chainId = "CHAIN_A"
    /\ Len(Pools) = 5
    /\ [i \in 1..5 |-> Pools[i].kind] = <<"Pool", "Pool", "Pair", "Pair", "Pair">>
    /\ TicksList = <<2, 1, 0, 0, 0>>

\* C3: the gas units estimateGas returns are the sum, over the maximal
\* same-family runs, of base + perHop * length for a V3 run and of
\* base + perExtraHop * (length - 1) for a V2 run, plus perInitTick * T with
\* T = max(1, sum of the ticks-crossed list) >= 1; with the constants
\* A{100, 50}, B{80, 20}, perInitTick 10 the route [A,A,B,B,B] with ticks
\* [2,1,0,0,0] costs 350.
C3_GasUnits ==
    pc = "returned" =>
        /\ totalInitializedTicksCrossed = C3_Ticks
        /\ totalInitializedTicksCrossed >= 1
        /\ baseGasUse =
              SumSeq([i \in 1..Len(Pools) |->
                        IF C3_IsRunStart(i) THEN C3_RunCost(i) ELSE 0])
              + COST_PER_INIT_TICK(chainId) * C3_Ticks
        /\ C3_Scenario => baseGasUse = 350

C3_Witness ==
    /\ pc = "returned"
    /\ C3_Scenario
    /\ baseGasUse = 350

\* C4: when the quote token is not the native currency and the provider has
\* no native/quote pool, every call of estimateGasCost returns, with a zero
\* amount of the quote token, a zero amount of the USD pool's non-native
\* token, and a non-zero gasEstimate.
C4_NoNativeQuotePool ==
    /\ token # Native
    /\ \A t \in SeqToSet(NativePoolsQuery(chainId, token)) : provider[t] = NoPool

C4_ZeroCostFallback ==
    (pc = "built" /\ C4_NoNativeQuotePool /\ result.status # "none") =>
        /\ result.status = "ok"
        /\ result.gasCostInToken.currency = token
        /\ result.gasCostInToken.numerator = 0
        /\ result.gasCostInUSD.currency \in {usdPool.token0, usdPool.token1} \ {Native}
        /\ result.gasCostInUSD.numerator = 0
        /\ result.gasEstimate # 0

C4_Witness ==
    /\ pc = "built"
    /\ C4_NoNativeQuotePool
    /\ result.status = "ok"
    /\ Len(Pools) = 2
    /\ result.gasCostInToken.numerator = 0
    /\ result.gasEstimate > 0

\* C5: when the quote token is the wrapped native currency, the
\* gasCostInToken of every result is an amount of the native currency of
\* raw magnitude gasPrice * gasEstimate, unconverted.
C5_NativeQuoteUnconverted ==
    (pc = "built" /\ token = Native /\ result.status = "ok") =>
        /\ result.gasCostInToken.currency = Native
        /\ result.gasCostInToken.numerator = gasPriceWei * result.gasEstimate
        /\ result.gasCostInToken.denominator = 1
        /\ result.gasCostInToken = totalGasCostNativeCurrency

C5_Witness ==
    /\ pc = "built"
    /\ token = Native
    /\ result.status = "ok"
    /\ gasPriceWei = 3
    /\ Len(Pools) = 2
    /\ result.gasCostInToken.numerator = 3 * result.gasEstimate
    /\ result.gasCostInUSD.currency # Native

\* no USD reference pool can be resolved: the chain has no USD tokens, or
\* the provider has none of the candidate pools
C6_NoUSDPool ==
    \/ usdGasTokensByChain(chainId) = NoTokens
    \/ \A u \in SeqToSet(usdGasTokensByChain(chainId)) :
         \A f \in SeqToSet(USDFeeAmounts) : provider[<<Native, u, f>>] = NoPool

\* C6: whenever no USD reference pool can be resolved, buildGasModel fails:
\* it never goes on to the native/quote lookup and never returns a model,
\* whatever the quote token and whether or not a native/quote pool exists.
C6_BuildFailsWithoutUSDPool ==
    C6_NoUSDPool =>
        /\ pc \in {"start", "awaitUSD", "failed"}
        /\ usdPool = NoPool
        /\ nativePool = NoPool
        /\ result = NoResult

C6_Witness ==
    /\ pc = "failed"
    /\ C6_NoUSDPool
    /\ usdGasTokensByChain(chainId) # NoTokens
    /\ token # Native
    /\ \E t \in SeqToSet(NativePoolsQuery(chainId, token)) : provider[t] # NoPool

\* the existing candidates of a lookup, in the candidate order
C7_Existing(query) == Compact([i \in 1..Len(query) |-> provider[query[i]]])

C7_IsFirstGreatest(pool, query) ==
    LET existing == C7_Existing(query)
    IN \E i \in 1..Len(existing) :
        /\ existing[i] = pool
        /\ \A k \in 1..Len(existing) : existing[k].liquidity <= pool.liquidity
        /\ \A k \in 1..(i - 1) : existing[k].liquidity < pool.liquidity

\* C7: each lookup that finds a candidate returns an existing candidate of
\* the greatest liquidity, the first of them in the candidate order.
C7_HighestLiquidity ==
    /\ pc \in {"awaitNative", "built"} =>
          C7_IsFirstGreatest(usdPool, USDPoolsQuery(chainId))
    /\ (pc = "built" /\ token # Native
            /\ C7_Existing(NativePoolsQuery(chainId, token)) # <<>>) =>
          C7_IsFirstGreatest(nativePool, NativePoolsQuery(chainId, token))

\* the route of the last call without its last hop, ticks still zero
C8_Shorter ==
    [route |-> [pools |-> SubSeq(Pools, 1, Len(Pools) - 1)],
     initializedTicksCrossedList |->
        IF TicksList = <<>> THEN <<>> ELSE SubSeq(TicksList, 1, Len(Pools) - 1)]

C8_OneFamilyNoTicks ==
    /\ Len(Pools) >= 2
    /\ \A i \in 1..Len(Pools) : Pools[i].kind = Pools[1].kind
    /\ \A i \in 1..Len(TicksList) : TicksList[i] = 0

\* C8: with no tick crossed, a route of n + 1 pools of one family costs at
\* least the gas units of the route of n pools of that family, n >= 1.
C8_MonotoneInHops ==
    (pc = "returned" /\ C8_OneFamilyNoTicks) =>
        baseGasUse >= EstimateGas(C8_Shorter, gasPriceWei, chainId).baseGasUse

C8_Witness ==
    /\ pc = "returned"
    /\ C8_OneFamilyNoTicks
    /\ Len(Pools) = 3
    /\ Pools[1].kind = "Pair"
    /\ TicksList = <<0, 0, 0>>
    /\ baseGasUse > EstimateGas(C8_Shorter, gasPriceWei, chainId).baseGasUse

\* a conversion of this model raises a currency mismatch: a pool it
\* converts with does not hold the native currency
C9_Holds(pool) == Native \in {pool.token0, pool.token1}

C9_Mismatch ==
    IF token = Native THEN ~C9_Holds(usdPool)
    ELSE nativePool # NoPool /\ (~C9_Holds(nativePool) \/ ~C9_Holds(usdPool))

C9_Captured == <<chainId, token, gasPriceWei, usdPool, nativePool, pc>>

\* C9: a currency mismatch raised by a conversion is thrown to the caller of
\* estimateGasCost, no result is returned; the call leaves what the model
\* captured as it was, and a call of a model whose conversions match returns
\* its result whatever the calls before it did.
C9_MismatchPropagates ==
    /\ [](pc = "built" /\ result.status # "none" =>
            /\ C9_Mismatch => result = Thrown
            /\ ~C9_Mismatch =>
                  (result.status = "ok" /\ result.gasEstimate = baseGasUse))
    /\ [][pc = "built" => C9_Captured' = C9_Captured]_vars

C9_Witness ==
    /\ pc = "built"
    /\ token # Native
    /\ nativePool # NoPool
    /\ C9_Mismatch
    /\ result = Thrown
    /\ Len(Pools) = 1

C10_USDCandidates ==
    {<<Native, u, f>> : u \in SeqToSet(usdGasTokensByChain(chainId)),
                        f \in SeqToSet(USDFeeAmounts)}

C10_NativeCandidates == {<<Native, token, f>> : f \in {"HIGH", "MEDIUM", "LOW"}}

C10_USDFound == \E t \in C10_USDCandidates : provider[t] # NoPool

C10_Order ==
    /\ Len(queries) <= 2
    /\ Len(queries) >= 1 =>
          /\ queries[1].lookup = "usd"
          /\ SeqToSet(queries[1].pools) = C10_USDCandidates
    /\ Len(queries) = 2 =>
          /\ queries[2].lookup = "native"
          /\ SeqToSet(queries[2].pools) = C10_NativeCandidates
          /\ token # Native
          /\ C10_USDFound
    /\ pc = "built" => Len(queries) = IF token = Native THEN 1 ELSE 2
    /\ (pc = "failed" \/ pc = "awaitUSD") => Len(queries) <= 1

\* C10 as stated: every run of buildGasModel issues the USD query first,
\* as one query.
C10_EveryRunQueries ==
    /\ C10_Order
    /\ pc # "start" => Len(queries) >= 1

\* C10: on a chain with USD tokens configured, buildGasModel issues the USD
\* query first, as one query of all candidates, and the native/quote query,
\* as one query, only after the USD lookup found a pool and only for a quote
\* token other than the native currency; estimateGasCost issues none.  On a
\* chain without USD tokens the build fails before any query.
C10_QueryProtocol ==
    IF usdGasTokensByChain(chainId) = NoTokens
    THEN queries = <<>> /\ pc \in {"start", "failed"}
    ELSE /\ C10_Order
         /\ pc # "start" => Len(queries) >= 1

C10_Witness ==
    /\ pc = "built"
    /\ token # Native
    /\ result.status = "ok"
    /\ Len(queries) = 2
    /\ queries[1].lookup = "usd"
    /\ queries[2].lookup = "native"

====
